---- MODULE Spec2Model ----
(***************************************************************************)
(* A model of the predict stage of the payment-QA pipeline                 *)
(* (scripts/generate_answer.py): batching, the bulk call, the parallel     *)
(* fallback through a thread pool, reply extraction, answer normalization  *)
(* and the writing of one prediction line per record.                      *)
(*                                                                         *)
(* Texts.  A Python str that is inspected character by character (a raw    *)
(* answer, a question) is a sequence of one-character strings.  A backend  *)
(* reply is a sequence of lexical tokens, each a record Tok(t, q, a):      *)
(*   fence  ```          json   the word json      nl  a newline           *)
(*   sp     a blank      lb     [                  rb  ]                   *)
(*   comma  ,            prose  any other word     scalar  a JSON scalar   *)
(*   obj    a JSON object with optional "question" and "answer" members    *)
(***************************************************************************)
EXTENDS Integers, Sequences, FiniteSets, TLC

VARIABLES
    records,         \* the input records (input_file), a sequence
    cfg_batch_size,  \* generation.batch_size of config.yaml, Unset when absent
    has_bulk,        \* hasattr(model, "generate_batch")
    pc,              \* position of main
    i,               \* start index of the current batch (0-based)
    texts,           \* texts of the current batch
    futs,            \* state of each submitted future of the current batch
    w,               \* number of records of the current batch already written
    out,             \* lines written to predictions_file, in order
    err,             \* the exception that ended the run, "none" if none
    err_args,        \* what that exception names: the key and the payment_ids
    out_f,           \* predictions_file: "unopened", "open" or "closed"
    opens,           \* number of times predictions_file was opened
    out_of_order,    \* as_completed yielded a future of the batch before one of lower index
    reply,           \* per payment_id: what the backend did with its prompt
    single_calls,    \* payment_ids for which generate_content was started
    bulk_failed,     \* a generate_batch call raised
    arg,             \* argument of the pure function under check
    ret,             \* its result
    fpc              \* "idle", "input" or "returned"

vars == <<records, cfg_batch_size, has_bulk, pc, i, texts, futs, w, out, err,
          err_args, out_f, opens, out_of_order, reply, single_calls, bulk_failed,
          arg, ret, fpc>>

runVars == <<records, cfg_batch_size, has_bulk, pc, i, texts, futs, w, out, err,
             err_args, out_f, opens, out_of_order, reply, single_calls,
             bulk_failed>>

----------------------------------------------------------------------------
(* Bounds of the model *)

MaxRecords == 3

MaxRawLen == 3

MaxTextLen == 3

----------------------------------------------------------------------------
(* Python str helpers on sequences of characters *)

Uppers == <<"A","B","C","D","E","F","G","H","I","J","K","L","M",
            "N","O","P","Q","R","S","T","U","V","W","X","Y","Z">>

Lowers == <<"a","b","c","d","e","f","g","h","i","j","k","l","m",
            "n","o","p","q","r","s","t","u","v","w","x","y","z">>

Whitespace == {" ", "\t", "\n"}

LowerChar(c) ==
    IF \E k \in 1..Len(Uppers) : Uppers[k] = c
    THEN Lowers[CHOOSE k \in 1..Len(Uppers) : Uppers[k] = c]
    ELSE c

UpperChar(c) ==
    IF \E k \in 1..Len(Lowers) : Lowers[k] = c
    THEN Uppers[CHOOSE k \in 1..Len(Lowers) : Lowers[k] = c]
    ELSE c

lower(s) == [k \in 1..Len(s) |-> LowerChar(s[k])]

RECURSIVE lstrip(_, _)
lstrip(s, cs) ==
    IF s # <<>> /\ Head(s) \in cs THEN lstrip(Tail(s), cs) ELSE s

RECURSIVE rstrip(_, _)
rstrip(s, cs) ==
    IF s # <<>> /\ s[Len(s)] \in cs THEN rstrip(SubSeq(s, 1, Len(s) - 1), cs) ELSE s

strip(s, cs) == rstrip(lstrip(s, cs), cs)

----------------------------------------------------------------------------
(* JSON values carried by a reply *)

JStr(s) == [kind |-> "str", chars |-> s]

JNull == [kind |-> "null", chars |-> <<>>]

Absent == [kind |-> "absent", chars |-> <<>>]

\* dict.get(key, ""): the member, or the empty string when the key is missing
GetOrEmpty(member) == IF member.kind = "absent" THEN JStr(<<>>) ELSE member

YES == <<"Y","e","s">>

NO == <<"N","o">>

NOT_APPLICABLE == <<"N","o","t"," ","A","p","p","l","i","c","a","b","l","e">>

Answers == {YES, NO, NOT_APPLICABLE}

Raised(e) == [raised |-> TRUE, exc |-> e, val |-> <<>>]

Returned(v) == [raised |-> FALSE, exc |-> "none", val |-> v]

\* A plausible slip: the lookup falls back to the key instead of Not Applicable.
normalize_answer_keeps_key(raw) ==
    IF raw.kind # "str" THEN Raised("AttributeError")
    ELSE LET key == lower(strip(strip(raw.chars, Whitespace), {"\""}))
         IN  Returned(IF key = lower(YES) THEN YES
                      ELSE IF key = lower(NO) THEN NO
                      ELSE IF key = lower(NOT_APPLICABLE) THEN NOT_APPLICABLE
                      ELSE key)

\* raw.strip().strip('"').lower(), then the dict lookup with its default;
\* a raw value that is no str has no strip method.
normalize_answer(raw) ==
    IF raw.kind # "str" THEN Raised("AttributeError")
    ELSE LET key == lower(strip(strip(raw.chars, Whitespace), {"\""}))
         IN  Returned(IF key = lower(YES) THEN YES
                      ELSE IF key = lower(NO) THEN NO
                      ELSE IF key = lower(NOT_APPLICABLE) THEN NOT_APPLICABLE
                      ELSE NOT_APPLICABLE)

----------------------------------------------------------------------------
(* Reply texts as token sequences *)

Tok(t, q, a) == [t |-> t, q |-> q, a |-> a]

Fence == Tok("fence", Absent, Absent)

JsonWord == Tok("json", Absent, Absent)

NL == Tok("nl", Absent, Absent)

SP == Tok("sp", Absent, Absent)

LB == Tok("lb", Absent, Absent)

RB == Tok("rb", Absent, Absent)

Comma == Tok("comma", Absent, Absent)

Prose == Tok("prose", Absent, Absent)

Scalar == Tok("scalar", Absent, Absent)

Obj(q, a) == Tok("obj", q, a)

WsToks == {"nl", "sp"}

\* re.sub(r"^```(?:json)?|```$", "", text, flags=re.MULTILINE): scanning left to
\* right, a fence at the start of a line goes together with a directly following
\* json; otherwise a fence at the end of a line goes; everything else stays.
RECURSIVE SubFences(_, _)
SubFences(text, k) ==
    IF k > Len(text) THEN <<>>
    ELSE LET lineStart == k = 1 \/ text[k - 1].t = "nl"
             lineEnd   == k = Len(text) \/ text[k + 1].t = "nl"
         IN  IF text[k].t = "fence" /\ lineStart
             THEN IF k < Len(text) /\ text[k + 1].t = "json"
                  THEN SubFences(text, k + 2)
                  ELSE SubFences(text, k + 1)
             ELSE IF text[k].t = "fence" /\ lineEnd
             THEN SubFences(text, k + 1)
             ELSE <<text[k]>> \o SubFences(text, k + 1)

RECURSIVE lstripToks(_)
lstripToks(s) ==
    IF s # <<>> /\ Head(s).t \in WsToks THEN lstripToks(Tail(s)) ELSE s

RECURSIVE rstripToks(_)
rstripToks(s) ==
    IF s # <<>> /\ s[Len(s)].t \in WsToks THEN rstripToks(SubSeq(s, 1, Len(s) - 1)) ELSE s

\* str.find / str.rfind, 0-based, -1 when absent
find(s, t) ==
    IF \E k \in 1..Len(s) : s[k].t = t
    THEN (CHOOSE k \in 1..Len(s) : s[k].t = t /\ \A j \in 1..(k - 1) : s[j].t # t) - 1
    ELSE -1

rfind(s, t) ==
    IF \E k \in 1..Len(s) : s[k].t = t
    THEN (CHOOSE k \in 1..Len(s) : s[k].t = t /\ \A j \in (k + 1)..Len(s) : s[j].t # t) - 1
    ELSE -1

\* s[a:b] for 0 <= a, 0 <= b
Slice(s, a, b) == SubSeq(s, a + 1, IF b > Len(s) THEN Len(s) ELSE b)

----------------------------------------------------------------------------
(* json.loads on a token sequence *)

JDict(q, a) == [kind |-> "dict", q |-> q, a |-> a, items |-> <<>>]

JScalar == [kind |-> "scalar", q |-> Absent, a |-> Absent, items |-> <<>>]

JList(items) == [kind |-> "list", q |-> Absent, a |-> Absent, items |-> items]

ParseFail == [ok |-> FALSE, val |-> JScalar, next |-> 0]

ParseOk(v, n) == [ok |-> TRUE, val |-> v, next |-> n]

RECURSIVE SkipWs(_, _)
SkipWs(toks, k) ==
    IF k <= Len(toks) /\ toks[k].t \in WsToks THEN SkipWs(toks, k + 1) ELSE k

RECURSIVE ParseValue(_, _)
RECURSIVE ParseElems(_, _, _)

\* a value starting at token k
ParseValue(toks, k) ==
    IF k > Len(toks) THEN ParseFail
    ELSE IF toks[k].t = "obj" THEN ParseOk(JDict(toks[k].q, toks[k].a), k + 1)
    ELSE IF toks[k].t = "scalar" THEN ParseOk(JScalar, k + 1)
    ELSE IF toks[k].t = "lb"
    THEN LET j == SkipWs(toks, k + 1)
         IN  IF j <= Len(toks) /\ toks[j].t = "rb"
             THEN ParseOk(JList(<<>>), j + 1)
             ELSE ParseElems(toks, k + 1, <<>>)
    ELSE ParseFail

\* the elements of an array from token k on, up to and including its ]
ParseElems(toks, k, acc) ==
    LET v == ParseValue(toks, SkipWs(toks, k))
    IN  IF ~v.ok THEN ParseFail
        ELSE LET j == SkipWs(toks, v.next)
             IN  IF j > Len(toks) THEN ParseFail
                 ELSE IF toks[j].t = "comma"
                 THEN ParseElems(toks, j + 1, Append(acc, v.val))
                 ELSE IF toks[j].t = "rb"
                 THEN ParseOk(JList(Append(acc, v.val)), j + 1)
                 ELSE ParseFail

\* json.loads: one value, surrounded by optional whitespace, and nothing else
json_loads(toks) ==
    LET v == ParseValue(toks, SkipWs(toks, 1))
    IN  IF v.ok /\ SkipWs(toks, v.next) > Len(toks)
        THEN Returned(v.val)
        ELSE Raised("JSONDecodeError")

----------------------------------------------------------------------------
(* The response extractor and the answer list of one record *)

\* if start == -1 or end == 0: return []
NoArray(start, end) == start = -1 \/ end = 0

\* extract_json_array: strip the fences, strip whitespace, cut from the first [
\* to the last ], and hand the cut to json.loads, whose error is not caught.
extract_json_array(text) ==
    LET clean == rstripToks(lstripToks(SubFences(text, 1)))
        start == find(clean, "lb")
        end   == rfind(clean, "rb") + 1
    IN  IF NoArray(start, end) THEN Returned(<<>>)
        ELSE LET parsed == json_loads(Slice(clean, start, end))
             IN  IF parsed.raised THEN parsed ELSE Returned(parsed.val.items)

\* A plausible slip: the raw answer is written as it came.
AnswerOfUnnormalized(qa) ==
    IF qa.kind # "dict" THEN Raised("AttributeError")
    ELSE LET q == GetOrEmpty(qa.q)
             a == GetOrEmpty(qa.a)
         IN  IF q.kind # "str" \/ a.kind # "str" THEN Raised("AttributeError")
             ELSE Returned([question |-> strip(q.chars, Whitespace), answer |-> a.chars])

\* {"question": qa.get("question", "").strip(),
\*  "answer": normalize_answer(qa.get("answer", ""))}
\* An element that is no mapping has no get; a question that is no str has no strip.
AnswerOf(qa) ==
    IF qa.kind # "dict" THEN Raised("AttributeError")
    ELSE LET q == GetOrEmpty(qa.q)
             a == normalize_answer(GetOrEmpty(qa.a))
         IN  IF q.kind # "str" THEN Raised("AttributeError")
             ELSE IF a.raised THEN a
             ELSE Returned([question |-> strip(q.chars, Whitespace), answer |-> a.val])

\* A plausible slip: the pairs come out in reverse order.
AnswersOfReversed(arr) ==
    IF \E k \in 1..Len(arr) : AnswerOf(arr[k]).raised
    THEN Raised("AttributeError")
    ELSE Returned([k \in 1..Len(arr) |-> AnswerOf(arr[Len(arr) + 1 - k]).val])

\* the list comprehension over arr: one pair per element, in arr's order;
\* the first element that raises ends it
AnswersOf(arr) ==
    IF \E k \in 1..Len(arr) : AnswerOf(arr[k]).raised
    THEN Raised("AttributeError")
    ELSE Returned([k \in 1..Len(arr) |-> AnswerOf(arr[k]).val])

----------------------------------------------------------------------------
(* Inputs of the pure functions *)

RECURSIVE SeqsUpTo(_, _)
SeqsUpTo(S, n) ==
    IF n = 0 THEN {<<>>}
    ELSE LET shorter == SeqsUpTo(S, n - 1)
         IN  shorter \cup {Append(s, x) : s \in {t \in shorter : Len(t) = n - 1}, x \in S}

Q1 == <<"Q","1">>

Q2 == <<"Q","2">>

RawChars == {"y", "Y", "e", "s", "n", "o", "N", " ", "\"", "'", "x"}

TokenYes == <<"y","e","s">>

TokenNo == <<"n","o">>

TokenNotApplicable == <<"n","o","t"," ","a","p","p","l","i","c","a","b","l","e">>

\* every choice of letter case
AllCases(tok) ==
    {s \in [1..Len(tok) -> {tok[k] : k \in 1..Len(tok)} \cup {UpperChar(tok[k]) : k \in 1..Len(tok)}] :
        \A k \in 1..Len(tok) : s[k] \in {tok[k], UpperChar(tok[k])}}

SomeCases(tok) ==
    {tok,
     [k \in 1..Len(tok) |-> UpperChar(tok[k])],
     [k \in 1..Len(tok) |-> IF k = 1 THEN UpperChar(tok[k]) ELSE tok[k]]}

Pads == {<<>>, <<" ">>}

Quotes == {<<>>, <<"\"">>, <<"'">>}

\* case variants, padded inside the quotes, wrapped in one pair of quotes or
\* none, padded outside
Wrapped(cases) ==
    {po \o qu \o pi \o c \o pi \o qu \o po :
        po \in Pads, qu \in Quotes, pi \in Pads, c \in cases}

VariantsYes == Wrapped(AllCases(TokenYes))

VariantsNo == Wrapped(AllCases(TokenNo))

VariantsNotApplicable == Wrapped(SomeCases(TokenNotApplicable))

\* the raw answers a reply element can carry: a missing key, null, strings
RawAnswers ==
    {Absent, JNull}
    \cup {JStr(s) : s \in SeqsUpTo(RawChars, MaxRawLen)}
    \cup {JStr(s) : s \in VariantsYes \cup VariantsNo \cup VariantsNotApplicable}

----------------------------------------------------------------------------
(* The run of main: inputs *)

Posed == <<Q1, Q2>>

\* n records with payment_ids 1..n; record m, if any, lacks its questions
RecordsOf(n, m) ==
    [k \in 1..n |-> [payment_id |-> k, has_questions |-> k # m,
                     questions |-> IF k # m THEN Posed ELSE <<>>]]

RecordInputs == {RecordsOf(n, m) : n \in 0..MaxRecords, m \in 0..MaxRecords}

BatchSizeCfgs ==
    {[set |-> FALSE, val |-> 0]} \cup {[set |-> TRUE, val |-> b] : b \in 1..MaxRecords}

\* ```json\n[{"question":"Q1","answer":"yes"},{"question":"Q2","answer":"no"}]\n```
TextFencedYesNo ==
    <<Fence, JsonWord, NL, LB, Obj(JStr(Q1), JStr(TokenYes)), Comma,
      Obj(JStr(Q2), JStr(TokenNo)), RB, NL, Fence>>

\* Not a JSON array at all
TextProse == <<Prose, SP, Prose, SP, Prose>>

\* [oops]
TextUnparseable == <<LB, Prose, RB>>

Q3 == <<"Q","3">>

\* Sure: [{"question":" Q2","answer":"NO"}, {"question":"Q3","answer":"maybe"},
\*        {"question":"Q1","answer":"\"Yes\""}]
TextReordered ==
    <<Prose, SP, LB, Obj(JStr(<<" ">> \o Q2), JStr(<<"N","O">>)), Comma, SP,
      Obj(JStr(Q3), JStr(<<"m","a","y","b","e">>)), Comma, NL,
      Obj(JStr(Q1), JStr(<<"\"","Y","e","s","\"">>)), RB>>

\* [{"question":"Q1","answer":null}]
TextNullAnswer == <<LB, Obj(JStr(Q1), JNull), RB>>

ReplyTexts ==
    {TextFencedYesNo, TextProse, TextUnparseable, TextReordered, TextNullAnswer}

NoReply == [set |-> FALSE, raises |-> FALSE, text |-> <<>>]

ReplyText(t) == [set |-> TRUE, raises |-> FALSE, text |-> t]

ReplyRaises == [set |-> TRUE, raises |-> TRUE, text |-> <<>>]

\* what one generate_content call can do: return a text, or raise
CallOutcomes == {ReplyText(t) : t \in ReplyTexts} \cup {ReplyRaises}

NoneText == [none |-> TRUE, toks |-> <<>>]

StrText(t) == [none |-> FALSE, toks |-> t]

----------------------------------------------------------------------------
(* The run of main: steps *)

\* A plausible slip: the configured size is ignored.
batch_size_ignores_cfg == Len(records)

\* cfg.get("generation", {}).get("batch_size", len(records))
batch_size ==
    IF cfg_batch_size.set THEN cfg_batch_size.val ELSE Len(records)

\* records[i : i + batch_size]
Batch == Slice(records, i, i + batch_size)

\* ThreadPoolExecutor(max_workers=batch_size)
max_workers == batch_size

InFlight == {k \in 1..Len(futs) : futs[k] = "running"}

\* an exception that names no key and no record
NoArgs == [key |-> "", ids |-> {}]

\* KeyError('questions'): the missing key, and no field of the record
KeyErrorArgs(rec) == [key |-> "questions", ids |-> {}]

\* A plausible slip: the file is left open when the block is left.
with_exit_leaks(f) == f

\* with predictions_path.open("w") as out_f: leaving the block, by its end or
\* by an exception, closes the file
with_exit(f) == IF f = "open" THEN "closed" ELSE f

Init ==
    /\ records \in RecordInputs
    /\ cfg_batch_size \in BatchSizeCfgs
    /\ has_bulk \in BOOLEAN
    /\ pc = "start"
    /\ i = 0
    /\ texts = <<>>
    /\ futs = <<>>
    /\ w = 0
    /\ out = <<>>
    /\ err = "none"
    /\ err_args = NoArgs
    /\ out_f = "unopened"
    /\ opens = 0
    /\ out_of_order = FALSE
    /\ reply = [k \in 1..Len(records) |-> NoReply]
    /\ single_calls = {}
    /\ bulk_failed = FALSE
    /\ arg = <<>>
    /\ ret = <<>>
    /\ fpc = "idle"

\* the output file is opened; range(0, len(records), batch_size) refuses a step of 0
BeginLoop ==
    /\ pc = "start"
    /\ IF batch_size = 0
       THEN pc' = "halted" /\ err' = "ValueError" /\ out_f' = with_exit("open")
       ELSE pc' = "loop" /\ err' = err /\ out_f' = "open"
    /\ opens' = opens + 1
    /\ UNCHANGED <<records, cfg_batch_size, has_bulk, i, texts, futs, w, out,
                   err_args, reply, single_calls, bulk_failed, out_of_order, arg, ret, fpc>>

\* the range is exhausted: the file is closed and the run ends
LoopExit ==
    /\ pc = "loop"
    /\ i >= Len(records)
    /\ pc' = "done"
    /\ out_f' = with_exit(out_f)
    /\ UNCHANGED <<records, cfg_batch_size, has_bulk, i, texts, futs, w, out, err,
                   err_args, opens,
                   reply, single_calls, bulk_failed, out_of_order, arg, ret, fpc>>

\* the batch is cut and a prompt is built per record; build_prompt reads
\* record["questions"], a KeyError when the record has none
BuildPrompts ==
    /\ pc = "loop"
    /\ i < Len(records)
    /\ IF \E k \in 1..Len(Batch) : ~Batch[k].has_questions
       THEN /\ pc' = "halted"
            /\ err' = "KeyError"
            /\ err_args' = KeyErrorArgs(Batch[CHOOSE k \in 1..Len(Batch) :
                               /\ ~Batch[k].has_questions
                               /\ \A j \in 1..(k - 1) : Batch[j].has_questions])
            /\ out_f' = with_exit(out_f)
       ELSE /\ pc' = "try"
            /\ UNCHANGED <<err, err_args, out_f>>
    /\ UNCHANGED <<records, cfg_batch_size, has_bulk, i, texts, futs, w, out,
                   opens, reply, single_calls, bulk_failed, out_of_order, arg, ret, fpc>>

\* what a generate_batch call, with the reading of its replies, can end in
BulkOutcomes == {"none", "AttributeError", "ConnectionError"}

\* except AttributeError:
CaughtByFallback(exc) == exc = "AttributeError"

\* the backend has no generate_batch: raise AttributeError, caught right below
NoBulk ==
    /\ pc = "try"
    /\ ~has_bulk
    /\ pc' = "fallback"
    /\ UNCHANGED <<records, cfg_batch_size, has_bulk, i, texts, futs, w, out, err,
                   err_args, out_f, opens,
                   reply, single_calls, bulk_failed, out_of_order, arg, ret, fpc>>

\* generate_batch answers every prompt, in the order submitted
BulkReturns ==
    /\ pc = "try"
    /\ has_bulk
    /\ \E f \in [1..Len(Batch) -> ReplyTexts] :
          /\ reply' = [p \in DOMAIN reply |->
                         IF \E k \in 1..Len(Batch) : Batch[k].payment_id = p
                         THEN ReplyText(f[CHOOSE k \in 1..Len(Batch) : Batch[k].payment_id = p])
                         ELSE reply[p]]
          /\ texts' = [k \in 1..Len(Batch) |-> StrText(f[k])]
    /\ w' = 0
    /\ pc' = "write"
    /\ UNCHANGED <<records, cfg_batch_size, has_bulk, i, futs, out, err,
                   err_args, out_f, opens,
                   single_calls, bulk_failed, out_of_order, arg, ret, fpc>>

\* generate_batch, or the reading of a reply's text, raises
BulkRaises ==
    /\ pc = "try"
    /\ has_bulk
    /\ \E exc \in BulkOutcomes \ {"none"} :
          IF CaughtByFallback(exc)
          THEN pc' = "fallback" /\ err' = err /\ out_f' = out_f
          ELSE pc' = "halted" /\ err' = exc /\ out_f' = with_exit(out_f)
    /\ bulk_failed' = TRUE
    /\ UNCHANGED <<records, cfg_batch_size, has_bulk, i, texts, futs, w, out,
                   err_args, opens,
                   reply, single_calls, out_of_order, arg, ret, fpc>>

\* texts = [None] * len(prompts); the pool is created
Fallback ==
    /\ pc = "fallback"
    /\ texts' = [k \in 1..Len(Batch) |-> NoneText]
    /\ futs' = [k \in 1..Len(Batch) |-> "unsubmitted"]
    /\ out_of_order' = FALSE
    /\ pc' = "submit"
    /\ UNCHANGED <<records, cfg_batch_size, has_bulk, i, w, out, err,
                   err_args, out_f, opens,
                   reply, single_calls, bulk_failed, arg, ret, fpc>>

Lowest(state) == CHOOSE k \in 1..Len(futs) :
    futs[k] = state /\ \A j \in 1..(k - 1) : futs[j] # state

\* exe.submit(...): the prompts are queued in order, idx captured with each
Submit ==
    /\ pc = "submit"
    /\ LET k == Lowest("unsubmitted")
       IN  /\ futs' = [futs EXCEPT ![k] = "queued"]
           /\ pc' = IF k = Len(futs) THEN "collect" ELSE "submit"
    /\ UNCHANGED <<records, cfg_batch_size, has_bulk, i, texts, w, out, err,
                   err_args, out_f, opens,
                   reply, single_calls, bulk_failed, out_of_order, arg, ret, fpc>>

\* a worker of the pool takes the oldest queued call; at most max_workers workers
StartCall ==
    /\ pc \in {"submit", "collect"}
    /\ \E k \in 1..Len(futs) : futs[k] = "queued"
    /\ Cardinality(InFlight) < max_workers
    /\ LET k == Lowest("queued")
       IN  /\ futs' = [futs EXCEPT ![k] = "running"]
           /\ single_calls' = single_calls \cup {Batch[k].payment_id}
    /\ UNCHANGED <<records, cfg_batch_size, has_bulk, pc, i, texts, w, out, err,
                   err_args, out_f, opens,
                   reply, bulk_failed, out_of_order, arg, ret, fpc>>

\* model.generate_content returns or raises
FinishCall(k) ==
    /\ pc \in {"submit", "collect"}
    /\ futs[k] = "running"
    /\ \E r \in CallOutcomes :
          reply' = [reply EXCEPT ![Batch[k].payment_id] = r]
    /\ futs' = [futs EXCEPT ![k] = "done"]
    /\ UNCHANGED <<records, cfg_batch_size, has_bulk, pc, i, texts, w, out, err,
                   err_args, out_f, opens,
                   single_calls, bulk_failed, out_of_order, arg, ret, fpc>>

\* A plausible slip: no except around fut.result().
OnResultUncaught(r) ==
    IF r.raises THEN [text |-> NoneText, exc |-> "CallError"]
    ELSE [text |-> StrText(r.text), exc |-> "none"]

\* try: texts[idx] = fut.result().text / except Exception: texts[idx] = ""
OnResult(r) ==
    IF r.raises THEN [text |-> StrText(<<>>), exc |-> "none"]
    ELSE [text |-> StrText(r.text), exc |-> "none"]

\* A plausible slip: the texts are stored in the order the calls complete.
StoreTextByCompletion(ts, idx, t) ==
    [ts EXCEPT ![Cardinality({k \in 1..Len(futs) : futs[k] = "collected"}) + 1] = t]

\* texts[idx] = ..., idx = future_to_idx[fut]
StoreText(ts, idx, t) == [ts EXCEPT ![idx] = t]

\* A plausible slip: the batch goes on to be written after the first result.
DrainedAtFirst(k) == TRUE

\* for fut in as_completed(future_to_idx) has yielded every future once future
\* k is handled
Drained(k) == \A j \in 1..Len(futs) : j # k => futs[j] = "collected"

\* as_completed hands over a finished future; after the last one the pool is
\* shut down and the batch goes on to be written
Collect(k) ==
    /\ pc = "collect"
    /\ futs[k] = "done"
    /\ LET res == OnResult(reply[Batch[k].payment_id])
       IN  IF res.exc # "none"
           THEN /\ pc' = "halted"
                /\ err' = res.exc
                /\ out_f' = with_exit(out_f)
                /\ UNCHANGED <<texts, futs, w, out_of_order>>
           ELSE /\ texts' = StoreText(texts, k, res.text)
                /\ out_of_order' = (\/ out_of_order
                                     \/ \E j \in 1..(k - 1) : futs[j] # "collected")
                /\ err' = err
                /\ out_f' = out_f
                /\ IF Drained(k)
                   THEN pc' = "write" /\ w' = 0 /\ futs' = <<>>
                   ELSE /\ pc' = pc
                        /\ w' = w
                        /\ futs' = [futs EXCEPT ![k] = "collected"]
    /\ UNCHANGED <<records, cfg_batch_size, has_bulk, i, out, err_args, opens,
                   reply, single_calls, bulk_failed, arg, ret, fpc>>

\* zip(batch, texts)
Zipped == IF Len(Batch) < Len(texts) THEN Len(Batch) ELSE Len(texts)

\* A plausible slip: the pairs are taken from the end of the batch.
ZipIndexReversed(n) == Zipped - n

\* for rec, txt in zip(batch, texts): the pair taken after n pairs
ZipIndex(n) == n + 1

\* A plausible slip: the loop advances by one record.
range_next_by_one(n) == n + 1

\* for i in range(0, len(records), batch_size): the start after start n
range_next(n) == n + batch_size

\* the line of one record: extraction, the answers list, the write
LineOf(rec, txt) ==
    IF txt.none THEN Raised("TypeError")
    ELSE LET arr == extract_json_array(txt.toks)
         IN  IF arr.raised THEN arr
             ELSE LET answers == AnswersOf(arr.val)
                  IN  IF answers.raised THEN answers
                      ELSE Returned([payment_id |-> rec.payment_id,
                                     answers |-> answers.val])

\* for rec, txt in zip(batch, texts): ... out_f.write(...); after the last pair
\* the loop moves on to the next batch
WriteRecord ==
    /\ pc = "write"
    /\ w < Zipped
    /\ LET line == LineOf(Batch[ZipIndex(w)], texts[ZipIndex(w)])
       IN  IF line.raised
           THEN /\ pc' = "halted"
                /\ err' = line.exc
                /\ out_f' = with_exit(out_f)
                /\ UNCHANGED <<out, w, i>>
           ELSE /\ out' = Append(out, line.val)
                /\ err' = err
                /\ out_f' = out_f
                /\ IF w + 1 = Zipped
                   THEN pc' = "loop" /\ i' = range_next(i) /\ w' = 0
                   ELSE pc' = pc /\ i' = i /\ w' = w + 1
    /\ UNCHANGED <<records, cfg_batch_size, has_bulk, texts, futs, err_args, opens,
                   reply, single_calls, bulk_failed, out_of_order, arg, ret, fpc>>

Next ==
    \/ BeginLoop
    \/ LoopExit
    \/ BuildPrompts
    \/ NoBulk
    \/ BulkReturns
    \/ BulkRaises
    \/ Fallback
    \/ Submit
    \/ StartCall
    \/ \E k \in 1..Len(futs) : FinishCall(k)
    \/ \E k \in 1..Len(futs) : Collect(k)
    \/ WriteRecord

Spec == Init /\ [][Next]_vars

----------------------------------------------------------------------------
(* The answers list of one reply element, for every raw answer *)

InitNormalize ==
    /\ records = <<>>
    /\ cfg_batch_size = [set |-> FALSE, val |-> 0]
    /\ has_bulk = FALSE
    /\ pc = "idle"
    /\ i = 0
    /\ texts = <<>>
    /\ futs = <<>>
    /\ w = 0
    /\ out = <<>>
    /\ err = "none"
    /\ err_args = NoArgs
    /\ out_f = "unopened"
    /\ opens = 0
    /\ out_of_order = FALSE
    /\ reply = <<>>
    /\ single_calls = {}
    /\ bulk_failed = FALSE
    /\ arg \in {JDict(JStr(Q1), a) : a \in RawAnswers}
    /\ ret = <<>>
    /\ fpc = "input"

\* answers = [{...} for qa in arr] with arr = [arg]
Normalize ==
    /\ fpc = "input"
    /\ ret' = AnswersOf(<<arg>>)
    /\ fpc' = "returned"
    /\ UNCHANGED <<runVars, arg>>

NextNormalize == Normalize

SpecNormalize == InitNormalize /\ [][NextNormalize]_vars

----------------------------------------------------------------------------
(* extract_json_array on every short text and on the replies of the run *)

TextToks ==
    {Fence, JsonWord, NL, LB, RB, Comma, Prose, Scalar,
     Obj(JStr(Q1), JStr(TokenYes))}

ExtractInputs == SeqsUpTo(TextToks, MaxTextLen) \cup ReplyTexts

InitExtract ==
    /\ records = <<>>
    /\ cfg_batch_size = [set |-> FALSE, val |-> 0]
    /\ has_bulk = FALSE
    /\ pc = "idle"
    /\ i = 0
    /\ texts = <<>>
    /\ futs = <<>>
    /\ w = 0
    /\ out = <<>>
    /\ err = "none"
    /\ err_args = NoArgs
    /\ out_f = "unopened"
    /\ opens = 0
    /\ out_of_order = FALSE
    /\ reply = <<>>
    /\ single_calls = {}
    /\ bulk_failed = FALSE
    /\ arg \in ExtractInputs
    /\ ret = <<>>
    /\ fpc = "input"

Extract ==
    /\ fpc = "input"
    /\ ret' = extract_json_array(arg)
    /\ fpc' = "returned"
    /\ UNCHANGED <<runVars, arg>>

NextExtract == Extract

SpecExtract == InitExtract /\ [][NextExtract]_vars

----------------------------------------------------------------------------
(* Properties of the run *)

Terminal == pc \in {"done", "halted"}

InputIds == {records[k].payment_id : k \in 1..Len(records)}

WrittenIds == {out[k].payment_id : k \in 1..Len(out)}

QuestionsOf(answers) == [j \in 1..Len(answers) |-> answers[j].question]

\* the record with a given payment_id
RecordOf(p) == records[CHOOSE k \in 1..Len(records) : records[k].payment_id = p]

\* per reply text (and the empty string): what extraction recovers from it
ExtractedFrom == [t \in ReplyTexts \cup {<<>>} |-> extract_json_array(t)]

\* per reply text (and the empty string): the answers list built from it
AnswersFrom == [t \in ReplyTexts \cup {<<>>} |-> AnswersOf(ExtractedFrom[t].val)]

\* the inputs C1 speaks of: a configured batch_size in [1, N], records that carry
\* their questions, a bulk call that does not raise, and calls that fail, return
\* well-formed arrays, or return text that is no parseable array
C1_Inputs ==
    /\ cfg_batch_size.set
    /\ cfg_batch_size.val \in 1..Len(records)
    /\ \A k \in 1..Len(records) : records[k].has_questions
    /\ ~bulk_failed
    /\ \A p \in DOMAIN reply :
          reply[p].set /\ ~reply[p].raises =>
              reply[p].text \in {TextFencedYesNo, TextProse, TextUnparseable,
                                 TextReordered}

\* C1: when the run has ended, on the inputs C1 speaks of, exactly one line has
\* been written per input record: as many lines as records, and the set of the
\* payment_ids written is the set of the input payment_ids.
C1_ExactlyOneLinePerRecord ==
    (Terminal /\ C1_Inputs) =>
        (Len(out) = Len(records) /\ WrittenIds = InputIds)

\* C2: in the parallel path a raising call is never what ends the run; the text
\* collected for it is the empty string; the line of a record whose call raised
\* has no answers, and the line of every other record holds the answers that its
\* own reply alone determines.
C2_CallFailureIsolated ==
    /\ err # "CallError"
    /\ pc = "collect" =>
          \A k \in 1..Len(futs) :
              (futs[k] = "collected" /\ reply[Batch[k].payment_id].raises)
                  => texts[k] = StrText(<<>>)
    /\ \A k \in 1..Len(out) :
          LET r == reply[out[k].payment_id]
          IN  /\ r.set
              /\ r.raises => out[k].answers = <<>>
              /\ ~r.raises => out[k].answers = AnswersFrom[r.text].val

\* two lines of one batch: one of a record whose call raised, one with answers
C2_Witness ==
    /\ ~has_bulk
    /\ batch_size >= 2
    /\ \E k, j \in 1..Len(out) :
          /\ reply[out[k].payment_id].raises
          /\ out[j].answers # <<>>
          /\ (out[k].payment_id - 1) \div batch_size
                = (out[j].payment_id - 1) \div batch_size

\* C3: when the backend exposes generate_batch, no generate_content call is ever
\* made and the fallback is never entered, and a bulk call that raised has ended
\* the run with its error.
C3_FallbackOnlyWithoutBulk ==
    has_bulk =>
        /\ single_calls = {}
        /\ pc \notin {"fallback", "submit", "collect"}
        /\ bulk_failed => (pc = "halted" /\ err # "none")

\* C4: every text held for a record of the batch is the reply to that record's
\* own prompt (the empty string if its call raised), while the calls are being
\* collected and when the batch is written, and every line written holds the
\* answers drawn from the reply to its own record's prompt.
C4_PairedWithOwnReply ==
    /\ pc = "collect" =>
          \A k \in 1..Len(futs) :
              futs[k] = "collected" =>
                  texts[k] = OnResult(reply[Batch[k].payment_id]).text
    /\ pc = "write" =>
          /\ Len(texts) = Len(Batch)
          /\ \A k \in 1..Len(Batch) :
                texts[k] = OnResult(reply[Batch[k].payment_id]).text
    /\ \A k \in 1..Len(out) :
          /\ reply[out[k].payment_id].set
          /\ out[k].answers
                = AnswersFrom[OnResult(reply[out[k].payment_id]).text.toks].val

\* a later call of the batch has been collected before an earlier one
C4_Witness ==
    /\ pc = "collect"
    /\ \E k, j \in 1..Len(futs) :
          /\ k < j
          /\ futs[j] = "collected"
          /\ futs[k] \in {"running", "done"}
          /\ ~texts[j].none
          /\ texts[j].toks # <<>>

\* the batch_size of the claim: the configured one, the record count if unset
ConfiguredBatchSize ==
    IF cfg_batch_size.set THEN cfg_batch_size.val ELSE Len(records)

\* C5: the number of generate_content calls that have started and have not yet
\* returned or raised never exceeds batch_size.
C5_InFlightBounded == Cardinality(InFlight) <= ConfiguredBatchSize

\* as many calls in flight as batch_size allows, and more than one
C5_Witness ==
    /\ Cardinality(InFlight) = ConfiguredBatchSize
    /\ Cardinality(InFlight) >= 2
    /\ cfg_batch_size.set
    /\ cfg_batch_size.val < Len(records)

\* C9 as stated: the questions of every line written are the questions posed for
\* its record, in the order posed.
C9_PosedQuestionsInPosedOrder ==
    \A k \in 1..Len(out) :
        QuestionsOf(out[k].answers) = RecordOf(out[k].payment_id).questions

\* the array recovered from the reply to a record's prompt
ArrayOf(p) ==
    IF reply[p].raises THEN <<>> ELSE ExtractedFrom[reply[p].text].val

\* C9 as amended: every line written holds one pair per element of the array
\* recovered from the reply, in the order of the array, each with the element's
\* question stripped and its answer normalized; the posed questions play no part.
C9_PairsAsReturned ==
    \A k \in 1..Len(out) :
        LET arr == ArrayOf(out[k].payment_id)
            answers == out[k].answers
        IN  /\ Len(answers) = Len(arr)
            /\ \A j \in 1..Len(arr) :
                  /\ answers[j].question
                        = strip(GetOrEmpty(arr[j].q).chars, Whitespace)
                  /\ answers[j].answer
                        = normalize_answer(GetOrEmpty(arr[j].a)).val

\* a line written whose questions are the posed ones in the other order, with
\* one that was not posed in between
C9_Witness ==
    \E k \in 1..Len(out) :
        /\ QuestionsOf(out[k].answers) = <<Q2, Q3, Q1>>
        /\ RecordOf(out[k].payment_id).questions = <<Q1, Q2>>

ScenarioReplies ==
    <<ReplyText(TextFencedYesNo), ReplyRaises, ReplyText(TextProse)>>

\* records A, B, C with questions [Q1, Q2], batch_size 2, no bulk operation, and
\* every call made so far has done what the scenario says
Scenario ==
    /\ records = RecordsOf(3, 0)
    /\ cfg_batch_size = [set |-> TRUE, val |-> 2]
    /\ ~has_bulk
    /\ \A p \in DOMAIN reply : reply[p].set => reply[p] = ScenarioReplies[p]

ScenarioOutput ==
    {[payment_id |-> 1,
      answers |-> <<[question |-> Q1, answer |-> YES],
                    [question |-> Q2, answer |-> NO]>>],
     [payment_id |-> 2, answers |-> <<>>],
     [payment_id |-> 3, answers |-> <<>>]}

\* a step of the run other than the writing of a line
StepBeforeWrite ==
    \/ BeginLoop
    \/ LoopExit
    \/ BuildPrompts
    \/ NoBulk
    \/ BulkReturns
    \/ BulkRaises
    \/ Fallback
    \/ Submit
    \/ StartCall
    \/ \E k \in 1..Len(futs) : FinishCall(k)
    \/ \E k \in 1..Len(futs) : Collect(k)

\* some step of the run can be taken (WriteRecord can whenever a pair is left)
CanStep == (pc = "write" /\ w < Zipped) \/ ENABLED StepBeforeWrite

\* C10: in the scenario the run never halts on an error and never gets stuck
\* before its end, whatever the interleaving of the calls; at its end three
\* lines have been written, and they are A with (Q1, Yes), (Q2, No), B with no
\* answers and C with no answers.
C10_EndToEndScenario ==
    Scenario =>
        /\ pc # "halted"
        /\ pc = "done" \/ CanStep
        /\ pc = "done" =>
              (Len(out) = 3 /\ {out[k] : k \in 1..Len(out)} = ScenarioOutput)

C10_Witness == Scenario /\ pc = "done" /\ Len(out) = 3

----------------------------------------------------------------------------
(* Properties of the pure functions *)

\* C6: extract_json_array returns for every text, never raising, and returns
\* the empty sequence when the text has no [ or no ].
C6_ExtractNeverRaises ==
    fpc = "returned" =>
        /\ ~ret.raised
        /\ (find(arg, "lb") = -1 \/ find(arg, "rb") = -1) => ret.val = <<>>

\* C7: for an element whose answer is a string or is missing, the answers list
\* is built without an error and every answer in it is Yes, No or Not Applicable.
C7_NormalizeTotalAndClosed ==
    (fpc = "returned" /\ arg.a.kind \in {"str", "absent"}) =>
        /\ ~ret.raised
        /\ \A k \in 1..Len(ret.val) : ret.val[k].answer \in Answers

\* an unrecognised token has been coerced to Not Applicable
C7_Witness ==
    /\ fpc = "returned"
    /\ arg.a = JStr(<<"x", "y">>)
    /\ ret = Returned(<<[question |-> Q1, answer |-> NOT_APPLICABLE]>>)

AnswerIs(a) == ret = Returned(<<[question |-> Q1, answer |-> a]>>)

\* C8: every variant of yes, no and not applicable (any letter case, one pair of
\* single or double quotes or none, blanks inside or outside the quotes) is
\* normalized to Yes, No and Not Applicable respectively.
C8_VariantsNormalize ==
    (fpc = "returned" /\ arg.a.kind = "str") =>
        /\ arg.a.chars \in VariantsYes => AnswerIs(YES)
        /\ arg.a.chars \in VariantsNo => AnswerIs(NO)
        /\ arg.a.chars \in VariantsNotApplicable => AnswerIs(NOT_APPLICABLE)

----------------------------------------------------------------------------
(* Termination, the output file, and the errors that end the run *)

\* the errors a run may end with by contract: a record without questions, a
\* bulk call that fails in transport
FatalErrors == {"KeyError", "ConnectionError"}

\* the anomalies C11 speaks of: at least one record, and replies that are
\* well-formed arrays, array-less prose or unparseable text (a raising call is
\* always possible)
C11_Anomalies ==
    /\ Len(records) > 0
    /\ \A p \in DOMAIN reply :
          reply[p].set /\ ~reply[p].raises =>
              reply[p].text \in {TextFencedYesNo, TextProse, TextUnparseable,
                                 TextReordered}

\* C11: under the anomalies C11 speaks of, a run that has halted has halted on a
\* missing-field error or a bulk transport error, nothing else ends it before
\* its last batch, and a run that has completed has written one line per record.
C11_CompletesUnlessFatal ==
    C11_Anomalies =>
        /\ pc = "halted" => err \in FatalErrors
        /\ pc = "done" => Len(out) = Len(records)

\* one step of the run as the output file sees it: at most one line is appended,
\* whole, to a file that is open and stays open, while no call is in flight;
\* the file is never opened a second time
C12_Step ==
    /\ out' # out =>
          /\ Len(out') = Len(out) + 1
          /\ SubSeq(out', 1, Len(out)) = out
          /\ DOMAIN out'[Len(out')] = {"payment_id", "answers"}
          /\ out_f = "open" /\ out_f' = "open"
          /\ InFlight = {}
    /\ opens' >= opens
    /\ out_f = "closed" => out_f' = "closed"

\* C12: lines are appended one per step, each whole, only to the open file and
\* never while a backend call is in flight; the file is opened at most once, it
\* is closed when the run has ended, by completion or by any error, and it is
\* not closed before.
C12_SerializedAppendsScopedFile ==
    /\ [](/\ opens <= 1
          /\ out_f = "unopened" <=> opens = 0
          /\ Terminal => out_f = "closed"
          /\ out_f = "closed" => Terminal)
    /\ [][C12_Step]_vars

\* a run ended by an error after lines were written, the file closed
C12_Witness ==
    /\ pc = "halted"
    /\ err # "none"
    /\ Len(out) >= 1
    /\ out_f = "closed"
    /\ opens = 1

\* C13: a run ended by the missing-field error has a record without questions in
\* the batch being built, no backend call was issued and no line was written for
\* any record of that batch, and the error names the payment_id of an offending
\* record.
C13_MissingQuestionsFatalAndReported ==
    (pc = "halted" /\ err = "KeyError") =>
        /\ \E k \in 1..Len(Batch) : ~Batch[k].has_questions
        /\ \A k \in 1..Len(Batch) :
              /\ ~reply[Batch[k].payment_id].set
              /\ Batch[k].payment_id \notin single_calls
              /\ Batch[k].payment_id \notin WrittenIds
        /\ \E k \in 1..Len(Batch) :
              /\ ~Batch[k].has_questions
              /\ Batch[k].payment_id \in err_args.ids

----------------------------------------------------------------------------
(* Batches: partition, draining, order of the lines *)

\* C17: cutting the records into batches never fails, and every batch cut is a
\* contiguous run of 1 to batch_size records starting at a multiple of
\* batch_size, so that the batches in order make up the input.
C17_PartitionNeverFails ==
    /\ err # "ValueError"
    /\ pc \in {"try", "fallback", "submit", "collect", "write"} =>
          /\ Len(Batch) \in 1..ConfiguredBatchSize
          /\ i % ConfiguredBatchSize = 0
          /\ Batch = SubSeq(records, i + 1, i + Len(Batch))

\* the position of a record in the input
RecordIndex(p) == CHOOSE k \in 1..Len(records) : records[k].payment_id = p

\* C18: while calls of a batch are being submitted or collected no line of that
\* batch has been written and every earlier record has its line; once a line of
\* the batch is written every call of the batch has returned or raised; and no
\* call has been started for a record beyond the current batch.
C18_BatchDrainedBeforeWritten ==
    /\ pc \in {"fallback", "submit", "collect"} => Len(out) = i
    /\ Len(out) > i => \A k \in 1..Len(Batch) : reply[Batch[k].payment_id].set
    /\ \A p \in single_calls : RecordIndex(p) <= i + Len(Batch)

\* the second batch is being collected after the two lines of the first, which
\* went through the pool, were written
C18_Witness ==
    /\ ~has_bulk
    /\ pc = "collect"
    /\ i = 2
    /\ Len(out) = 2
    /\ \E k \in 1..Len(futs) : futs[k] = "done"

\* C19: the k-th line written is the line of the k-th input record.
C19_LinesInInputOrder ==
    \A k \in 1..Len(out) : out[k].payment_id = records[k].payment_id

\* two lines of a batch are written whose calls completed out of input order
C19_Witness ==
    /\ pc = "write"
    /\ w >= 2
    /\ out_of_order

\* C20: a run ended by a fatal error of prompt building or of the bulk call has
\* written exactly the lines of the batches before the failing one, in input
\* order: as many lines as the start of the failing batch, a multiple of
\* batch_size, and none of a later record.
C20_WholeBatchPrefix ==
    (pc = "halted" /\ err \in FatalErrors) =>
        /\ i % ConfiguredBatchSize = 0
        /\ Len(out) = i
        /\ \A k \in 1..Len(out) : out[k].payment_id = records[k].payment_id
        /\ WrittenIds \cap {Batch[k].payment_id : k \in 1..Len(Batch)} = {}

\* a fatal error in a batch after the first, with records left unwritten
C20_Witness ==
    /\ pc = "halted"
    /\ err \in FatalErrors
    /\ i > 0
    /\ Len(out) = i
    /\ Len(records) > i

----------------------------------------------------------------------------
(* The few-shot exemplars of a run: inline list, then the JSONL store *)

MaxInline == 2
MaxLines == 3

\* the global control set of config.yaml
GlobalControls == "controls of config"

\* an exemplar: its payment, its QA pairs, and its own control set if it has one
Exemplar(p, c) == [payment |-> p, qa_pairs |-> <<p, "qa">>, controls |-> c]

ExemplarOwn == Exemplar(1, "controls of exemplar")

ExemplarPlain == Exemplar(2, "absent")

Exemplars == {ExemplarOwn, ExemplarPlain}

\* a line of the store that json.loads accepts, and one it rejects
GoodLine(ex) == [parses |-> TRUE, value |-> ex]

BadLine == [parses |-> FALSE, value |-> Exemplar(0, "absent")]

StoreLines == {GoodLine(ex) : ex \in Exemplars} \cup {BadLine}

\* few_shot.examples, few_shot.file, whether the file exists, and its lines
FewShotInputs ==
    [inline : SeqsUpTo(Exemplars, MaxInline),
     file   : BOOLEAN,
     exists : BOOLEAN,
     lines  : SeqsUpTo(StoreLines, MaxLines)]

\* main and load_jsonl before anything has run
FewShotStart ==
    [few_shots |-> <<>>, examples |-> <<>>, pos |-> 0, loads |-> 0,
     log |-> <<>>]

\* the variables of the predict run, not in use
RunIdle ==
    /\ records = <<>>
    /\ cfg_batch_size = [set |-> FALSE, val |-> 0]
    /\ has_bulk = FALSE
    /\ pc = "idle"
    /\ i = 0
    /\ texts = <<>>
    /\ futs = <<>>
    /\ w = 0
    /\ out = <<>>
    /\ err = "none"
    /\ err_args = NoArgs
    /\ out_f = "unopened"
    /\ opens = 0
    /\ out_of_order = FALSE
    /\ reply = <<>>
    /\ single_calls = {}
    /\ bulk_failed = FALSE

InitFewShot ==
    /\ RunIdle
    /\ arg \in FewShotInputs
    /\ ret = FewShotStart
    /\ fpc = "resolve"

\* A plausible slip: the store is read whenever a path is configured.
ReadsStoreWhenConfigured(inline, file) == file

\* if not few_shots and few_shot_file:
ReadsStore(inline, file) == inline = <<>> /\ file

\* few_shots = cfg...get("examples", []); the store is loaded only if it is called for
Resolve ==
    /\ fpc = "resolve"
    /\ IF ReadsStore(arg.inline, arg.file)
       THEN /\ ret' = [ret EXCEPT !.few_shots = arg.inline, !.loads = @ + 1]
            /\ fpc' = "open"
       ELSE /\ ret' = [ret EXCEPT !.few_shots = arg.inline]
            /\ fpc' = "check"
    /\ UNCHANGED <<runVars, arg>>

\* load_jsonl: examples = []; path.open("r"), FileNotFoundError is logged and
\* the empty list returned
OpenStore ==
    /\ fpc = "open"
    /\ IF arg.exists
       THEN /\ ret' = [ret EXCEPT !.examples = <<>>, !.pos = 0]
            /\ fpc' = "read"
       ELSE /\ ret' = [ret EXCEPT !.examples = <<>>, !.few_shots = <<>>,
                                  !.log = Append(@, "warning: file not found")]
            /\ fpc' = "check"
    /\ UNCHANGED <<runVars, arg>>

\* A plausible slip: a malformed line discards what was read before it.
on_decode_error_drops(examples) == <<>>

\* except json.JSONDecodeError: ...; return examples
on_decode_error(examples) == examples

\* for line in f: examples.append(json.loads(line)); a JSONDecodeError ends the
\* load, is logged, and what was read so far is returned
ReadLine ==
    /\ fpc = "read"
    /\ ret.pos < Len(arg.lines)
    /\ LET line == arg.lines[ret.pos + 1]
       IN  IF line.parses
           THEN /\ ret' = [ret EXCEPT !.examples = Append(@, line.value),
                                      !.pos = @ + 1]
                /\ fpc' = fpc
           ELSE /\ ret' = [ret EXCEPT
                              !.few_shots = on_decode_error(ret.examples),
                              !.log = Append(@, "error: failed to parse")]
                /\ fpc' = "check"
    /\ UNCHANGED <<runVars, arg>>

\* the file is exhausted: the count is logged and the examples returned
EndOfStore ==
    /\ fpc = "read"
    /\ ret.pos = Len(arg.lines)
    /\ ret' = [ret EXCEPT !.few_shots = ret.examples,
                          !.log = Append(@, "info: loaded")]
    /\ fpc' = "check"
    /\ UNCHANGED <<runVars, arg>>

\* if not few_shots: logger.warning("Proceeding zero-shot ..."); main goes on
ProceedToDispatch ==
    /\ fpc = "check"
    /\ ret' = IF ret.few_shots = <<>>
              THEN [ret EXCEPT !.log = Append(@, "warning: zero-shot")]
              ELSE ret
    /\ fpc' = "dispatch"
    /\ UNCHANGED <<runVars, arg>>

NextFewShot ==
    \/ Resolve
    \/ OpenStore
    \/ ReadLine
    \/ EndOfStore
    \/ ProceedToDispatch

SpecFewShot == InitFewShot /\ [][NextFewShot]_vars

\* main has reached dispatch, or its next step can be taken: nothing was raised
FewShotGoesOn == fpc = "dispatch" \/ ENABLED NextFewShot

Logged(msg) == \E k \in 1..Len(ret.log) : ret.log[k] = msg

\* C14: with a non-empty inline list the store is never loaded and the inline
\* exemplars are what dispatch gets; the store is loaded only with an empty
\* inline list and a configured path, and at most once; with such a store
\* missing, dispatch is reached with no exemplars, after the file-not-found
\* warning and the zero-shot warning, and nothing is raised.
C14_InlinePreferred ==
    /\ FewShotGoesOn
    /\ ret.loads <= 1
    /\ ret.loads = 1 => (arg.inline = <<>> /\ arg.file)
    /\ arg.inline # <<>> =>
          /\ ret.loads = 0
          /\ fpc = "dispatch" => ret.few_shots = arg.inline
    /\ (fpc = "dispatch" /\ arg.inline = <<>> /\ arg.file /\ ~arg.exists) =>
          /\ ret.few_shots = <<>>
          /\ ret.log = <<"warning: file not found", "warning: zero-shot">>
    /\ (fpc = "dispatch" /\ arg.inline = <<>> /\ ~arg.file) =>
          (ret.loads = 0 /\ ret.few_shots = <<>>)

\* an inline list given together with a store that exists and has exemplars
C14_Witness ==
    /\ fpc = "dispatch"
    /\ arg.inline # <<>>
    /\ arg.file /\ arg.exists
    /\ \E k \in 1..Len(arg.lines) : arg.lines[k].parses
    /\ ret.few_shots = arg.inline

\* a missing store: dispatch is reached zero-shot
C14_WitnessMissingStore ==
    /\ fpc = "dispatch"
    /\ arg.inline = <<>> /\ arg.file /\ ~arg.exists
    /\ ret.few_shots = <<>>

\* the index of the first line json.loads rejects, 0 if there is none
FirstBad(lines) ==
    IF \E k \in 1..Len(lines) : ~lines[k].parses
    THEN CHOOSE k \in 1..Len(lines) :
             ~lines[k].parses /\ \A j \in 1..(k - 1) : lines[j].parses
    ELSE 0

ValuesOf(lines) == [k \in 1..Len(lines) |-> lines[k].value]

\* the store is the source of the exemplars and holds a malformed line
C15_Case ==
    /\ arg.inline = <<>> /\ arg.file /\ arg.exists
    /\ FirstBad(arg.lines) > 0

\* C15: when the store is loaded and holds a malformed line, nothing is raised,
\* no line after the first malformed one is read, and dispatch gets exactly the
\* exemplars of the lines before it, after the parse error was logged.
C15_MalformedLineKeepsPrefix ==
    C15_Case =>
        /\ fpc = "dispatch" \/ ENABLED (ReadLine \/ ProceedToDispatch \/ OpenStore \/ Resolve)
        /\ ret.pos < FirstBad(arg.lines)
        /\ fpc = "dispatch" =>
              /\ ret.few_shots = ValuesOf(SubSeq(arg.lines, 1, FirstBad(arg.lines) - 1))
              /\ Logged("error: failed to parse")
              /\ ~Logged("info: loaded")

\* a malformed line between two good ones: the exemplar before it is kept
C15_Witness ==
    /\ C15_Case
    /\ fpc = "dispatch"
    /\ FirstBad(arg.lines) = 2
    /\ Len(arg.lines) = 3
    /\ arg.lines[3].parses
    /\ Len(ret.few_shots) = 1

----------------------------------------------------------------------------
(* build_prompt, of generate_answer.py and of format_fewshot_prompt.py *)

MaxFewShots == 3

\* a piece of the prompt: its heading, what is rendered under it, and the
\* payment_id of the record or exemplar it is taken from (0: the configuration,
\* a fixed text, or a default)
Sec(label, of, owner) == [label |-> label, of |-> of, owner |-> owner]

\* the records a prompt is built for, with and without their questions
PromptRecords ==
    {[payment_id |-> k, has_questions |-> h,
      questions |-> IF h THEN Posed ELSE <<>>] : k \in 1..2, h \in BOOLEAN}

PromptInputs ==
    [variant   : {"generate_answer", "format_fewshot_prompt"},
     record    : PromptRecords,
     few_shots : SeqsUpTo(Exemplars, MaxFewShots)]

\* A plausible slip: the exemplar's own control set is ignored.
ex_controls_global(ex) == Sec("Controls", "controls", 0)

\* ex.get("controls", controls)
ex_controls(ex) ==
    IF ex.controls = "absent"
    THEN Sec("Controls", "controls", 0)
    ELSE Sec("Controls", "controls", ex.payment)

\* the block of one exemplar: payment, controls, QA pairs, "---"
build_example_block(ex) ==
    << Sec("Payment record", "payment", ex.payment),
       ex_controls(ex),
       Sec("QA pairs", "qa_pairs", ex.payment),
       Sec("---", "delimiter", 0) >>

RECURSIVE ExampleBlocks(_)
\* for ex in few_shots: one block each, in order
ExampleBlocks(few_shots) ==
    IF few_shots = <<>> THEN <<>>
    ELSE build_example_block(Head(few_shots)) \o ExampleBlocks(Tail(few_shots))

\* build_prompt of generate_answer.py
build_prompt(record, few_shots) ==
    IF ~record.has_questions THEN Raised("KeyError")
    ELSE Returned(
           << Sec("Control definitions", "controls", 0),
              Sec("Output schema", "instruction", 0) >>
           \o (IF few_shots # <<>>
               THEN ExampleBlocks(few_shots)
               ELSE << Sec("(No few-shot examples configured)", "note", 0) >>)
           \o << Sec("Payment record", "record", record.payment_id),
                 Sec("Controls", "controls", 0),
                 Sec("Questions", "questions", record.payment_id),
                 Sec("Return a JSON array of QA pairs", "closing", 0) >>)

\* build_prompt of format_fewshot_prompt.py: questions default to []
format_build_prompt(record, few_shots) ==
    Returned(
      << Sec("Control definitions", "controls", 0),
         Sec("You are an auditor", "instruction", 0) >>
      \o ExampleBlocks(few_shots)
      \o << Sec("Payment record", "record", record.payment_id),
            Sec("Controls", "controls", 0),
            Sec("Questions", "questions",
                IF record.has_questions THEN record.payment_id ELSE 0),
            Sec("Return a JSON array of QA pairs", "closing", 0) >>)

InitPrompt ==
    /\ RunIdle
    /\ arg \in PromptInputs
    /\ ret = <<>>
    /\ fpc = "input"

BuildPromptPredict ==
    /\ fpc = "input"
    /\ arg.variant = "generate_answer"
    /\ ret' = build_prompt(arg.record, arg.few_shots)
    /\ fpc' = "returned"
    /\ UNCHANGED <<runVars, arg>>

BuildPromptFormat ==
    /\ fpc = "input"
    /\ arg.variant = "format_fewshot_prompt"
    /\ ret' = format_build_prompt(arg.record, arg.few_shots)
    /\ fpc' = "returned"
    /\ UNCHANGED <<runVars, arg>>

NextPrompt ==
    \/ BuildPromptPredict
    \/ BuildPromptFormat

SpecPrompt == InitPrompt /\ [][NextPrompt]_vars

\* what a prompt holds, headings left out
Contents(prompt) ==
    [k \in 1..Len(prompt) |-> [of |-> prompt[k].of, owner |-> prompt[k].owner]]

Part(of, owner) == [of |-> of, owner |-> owner]

RECURSIVE ClaimedBlocks(_)
\* per exemplar: its record, its own controls else the global ones, its QA
\* pairs, the delimiter
ClaimedBlocks(few_shots) ==
    IF few_shots = <<>> THEN <<>>
    ELSE LET ex == Head(few_shots)
         IN  << Part("payment", ex.payment),
                Part("controls", IF ex = ExemplarOwn THEN ex.payment ELSE 0),
                Part("qa_pairs", ex.payment),
                Part("delimiter", 0) >>
             \o ClaimedBlocks(Tail(few_shots))

ClaimedHead == << Part("controls", 0), Part("instruction", 0) >>

ClaimedTail(record) ==
    << Part("record", record.payment_id),
       Part("controls", 0),
       Part("questions", IF record.has_questions THEN record.payment_id ELSE 0),
       Part("closing", 0) >>

\* the prompt has been built and returned
PromptReturned == fpc = "returned" /\ ~ret.raised

----------------------------------------------------------------------------
(* generate_payment_and_qa.py: main, step 8, and generate_for_record *)

MaxSynthetic == 3

\* generation.payment_count and generation.batch_size of config.yaml
GenInputs == [payment_count : 0..MaxSynthetic, batch_size : 1..MaxSynthetic]

\* what a generate_content call of the generator can do: raise, or return an
\* array, an unparseable text, or an array with a null answer
GenOutcomes ==
    {ReplyRaises, ReplyText(TextFencedYesNo), ReplyText(TextUnparseable),
     ReplyText(TextNullAnswer)}

\* the result of a future that has not finished
NoResult == [raised |-> FALSE, exc |-> "unset", val |-> <<>>]

\* generate_for_record: the call, the extraction, the answers list; the
\* payment and the questions copied into the result are left out
generate_for_record(pid, r) ==
    IF r.raises THEN Raised("CallError")
    ELSE LET arr == extract_json_array(r.text)
         IN  IF arr.raised THEN arr
             ELSE LET answers == AnswersOf(arr.val)
                  IN  IF answers.raised THEN answers
                      ELSE Returned([payment_id |-> pid, answers |-> answers.val])

\* main at step 8: the pool and the file are open, nothing is submitted
GenStart(n) ==
    [futs     |-> [k \in 1..n |-> "unsubmitted"],
     results  |-> [k \in 1..n |-> NoResult],
     finished |-> <<>>,
     early    |-> {},
     waiter   |-> <<>>,
     out      |-> <<>>,
     err      |-> "none",
     out_f    |-> "open"]

InitGen ==
    /\ RunIdle
    /\ arg \in GenInputs
    /\ ret = GenStart(arg.payment_count)
    /\ fpc = IF arg.payment_count = 0 THEN "as_completed" ELSE "submit"

GenRunning == {k \in 1..Len(ret.futs) : ret.futs[k] = "running"}

GenLowest(state) == CHOOSE k \in 1..Len(ret.futs) :
    ret.futs[k] = state /\ \A j \in 1..(k - 1) : ret.futs[j] # state

\* exec.submit(generate_for_record, rec, ...) for rec in synthetic
GenSubmit ==
    /\ fpc = "submit"
    /\ LET k == GenLowest("unsubmitted")
       IN  /\ ret' = [ret EXCEPT !.futs[k] = "queued"]
           /\ fpc' = IF k = Len(ret.futs) THEN "as_completed" ELSE fpc
    /\ UNCHANGED <<runVars, arg>>

\* as_completed(futures) is called: the futures already finished are set apart,
\* to be yielded first, and the waiter is installed on the others
GenAsCompleted ==
    /\ fpc = "as_completed"
    /\ ret' = [ret EXCEPT
                  !.early = {j \in 1..Len(ret.futs) : ret.futs[j] = "done"}]
    /\ fpc' = "collect"
    /\ UNCHANGED <<runVars, arg>>

\* the positions of main at which the workers of the pool run
GenPoolAlive == {"submit", "as_completed", "collect", "halted"}

\* a worker of the pool takes the oldest queued call; the pool keeps working
\* while main leaves the with block on an exception (shutdown(wait=True))
GenStartCall ==
    /\ fpc \in GenPoolAlive
    /\ \E k \in 1..Len(ret.futs) : ret.futs[k] = "queued"
    /\ Cardinality(GenRunning) < arg.batch_size
    /\ ret' = [ret EXCEPT !.futs[GenLowest("queued")] = "running"]
    /\ UNCHANGED <<runVars, arg, fpc>>

\* generate_for_record returns or raises in its worker; a future that finishes
\* once as_completed waits is added to the waiter's list
GenFinishCall(k) ==
    /\ fpc \in GenPoolAlive
    /\ ret.futs[k] = "running"
    /\ \E r \in GenOutcomes :
          ret' = [ret EXCEPT !.futs[k] = "done",
                             !.results[k] = generate_for_record(k, r),
                             !.finished = Append(@, k),
                             !.waiter = IF fpc = "collect" THEN Append(@, k) ELSE @]
    /\ UNCHANGED <<runVars, arg, fpc>>

\* A plausible slip: the waiter's list is taken from its end.
yield_last(waiter) == waiter[Len(waiter)]

\* as_completed hands over the waiter's list in finishing order
yield_next(waiter) == Head(waiter)

\* the futures as_completed can yield now: any of those that had finished when
\* it was called, and after them the next of the waiter's list
GenYieldable ==
    LET early == {k \in ret.early : ret.futs[k] = "done"}
    IN  IF early # {} THEN early
        ELSE IF ret.waiter # <<>> THEN {yield_next(ret.waiter)}
        ELSE {}

Without(q, k) == SelectSeq(q, LAMBDA x : x # k)

\* for fut in as_completed(futures): result = fut.result(); out_f.write(...);
\* an exception of the future leaves the loop and the with block
GenCollect(k) ==
    /\ fpc = "collect"
    /\ k \in GenYieldable
    /\ LET res == ret.results[k]
           rest == [ret EXCEPT !.futs[k] = "yielded",
                               !.waiter = Without(@, k)]
       IN  IF res.raised
           THEN /\ ret' = [rest EXCEPT !.err = res.exc, !.out_f = with_exit(@)]
                /\ fpc' = "halted"
           ELSE /\ ret' = [rest EXCEPT !.out = Append(@, res.val)]
                /\ fpc' = fpc
    /\ UNCHANGED <<runVars, arg>>

\* every future was yielded: the with block is left, the file closed
GenExit ==
    /\ fpc = "collect"
    /\ \A k \in 1..Len(ret.futs) : ret.futs[k] = "yielded"
    /\ ret' = [ret EXCEPT !.out_f = with_exit(@)]
    /\ fpc' = "done"
    /\ UNCHANGED <<runVars, arg>>

NextGen ==
    \/ GenSubmit
    \/ GenAsCompleted
    \/ GenStartCall
    \/ \E k \in 1..Len(ret.futs) : GenFinishCall(k)
    \/ \E k \in 1..Len(ret.futs) : GenCollect(k)
    \/ GenExit

SpecGen == InitGen /\ [][NextGen]_vars

GenWrittenIds == {ret.out[k].payment_id : k \in 1..Len(ret.out)}

\* the place of a record's call in the order in which the calls finished
FinishedAt(p) == CHOOSE k \in 1..Len(ret.finished) : ret.finished[k] = p

\* what C21 says apart from the order of the lines: no record has two lines;
\* the record of every line was yielded with a call that returned; a record
\* whose call, extraction or normalization raised has no line; a halted run
\* was ended by the exception of a future that was yielded
C21_LinesOfReturnedCalls ==
    /\ \A a, b \in 1..Len(ret.out) :
          a # b => ret.out[a].payment_id # ret.out[b].payment_id
    /\ \A p \in GenWrittenIds :
          /\ ret.futs[p] = "yielded"
          /\ ~ret.results[p].raised
          /\ ret.results[p].exc = "none"
    /\ \A k \in 1..Len(ret.results) : ret.results[k].raised => k \notin GenWrittenIds
    /\ fpc = "halted" =>
          /\ ret.err # "none"
          /\ \E k \in 1..Len(ret.futs) :
                /\ ret.futs[k] = "yielded"
                /\ ret.results[k].raised
                /\ ret.results[k].exc = ret.err
    /\ fpc = "done" => ret.err = "none" /\ Len(ret.out) = arg.payment_count

\* a step of the generator as its output sees it: a line is appended only by
\* main while it collects, one at a time, and none once the run has halted
C21_Step ==
    /\ ret'.out # ret.out =>
          /\ fpc = "collect"
          /\ Len(ret'.out) = Len(ret.out) + 1
          /\ SubSeq(ret'.out, 1, Len(ret.out)) = ret.out
    /\ fpc = "halted" => (fpc' = "halted" /\ ret'.out = ret.out)

\* C21 as stated: at most one line per record, each written only after its
\* record's call returned successfully, the lines in the order in which the
\* calls finished; an exception of a call, of its extraction or normalization,
\* ends the run, no line is written after it and none for a failing record.
C21_LinesInCompletionOrder ==
    /\ [](/\ C21_LinesOfReturnedCalls
          /\ \A a, b \in 1..Len(ret.out) :
                a < b => FinishedAt(ret.out[a].payment_id)
                             < FinishedAt(ret.out[b].payment_id))
    /\ [][C21_Step]_vars

\* C21 amended: as stated, except for the order: the lines of the calls that
\* had finished when as_completed was called come first, in any order, and
\* after them the lines of the other calls in the order in which they finished.
C21_LinesInYieldOrder ==
    /\ [](/\ C21_LinesOfReturnedCalls
          /\ \A a, b \in 1..Len(ret.out) :
                a < b =>
                    LET x == ret.out[a].payment_id
                        y == ret.out[b].payment_id
                    IN  \/ x \in ret.early
                        \/ y \notin ret.early /\ FinishedAt(x) < FinishedAt(y))
    /\ [][C21_Step]_vars

\* two calls had finished before as_completed was called and their lines were
\* written against the finishing order; the third call raised and ended the run
C21_Witness ==
    /\ fpc = "halted"
    /\ Len(ret.out) = 2
    /\ ret.early = {ret.out[1].payment_id, ret.out[2].payment_id}
    /\ FinishedAt(ret.out[1].payment_id) > FinishedAt(ret.out[2].payment_id)
    /\ ret.out_f = "closed"

----------------------------------------------------------------------------
(* run_pipeline.py: main *)

MaxExitCode == 2

\* the stages in the order of their blocks in main
Stages == <<"generate", "format", "predict", "audit">>

\* the script each block runs
ScriptOf ==
    [generate |-> "scripts/generate_payment_and_qa.py",
     format   |-> "scripts/format_fewshot_prompt.py",
     predict  |-> "scripts/generate_answers.py",
     audit    |-> "scripts/audit_log.py"]

\* the command line: --stage, --config, --prompt-template, --audit-log
PipelineInputs ==
    [stage           : {"generate", "format", "predict", "audit", "all"},
     config          : {"../config.yaml", "other.yaml"},
     prompt_template : {"scripts/fewshot_template.json", "other.json"},
     audit_log       : {"logs/audit.log", "other.log"}]

\* the options a block passes besides --config
ExtraOf(stage, args) ==
    CASE stage = "format" -> <<"--template", args.prompt_template>>
      [] stage = "audit"  -> <<"--output", args.audit_log>>
      [] OTHER            -> <<>>

\* cmd = [sys.executable, script, "--config", args.config, ...]
CmdOf(stage, args) ==
    [script |-> ScriptOf[stage], config |-> args.config,
     extra |-> ExtraOf(stage, args)]

\* if args.stage in (stage, "all"):
Selected(stage, args) == args.stage \in {stage, "all"}

\* A plausible slip: subprocess.run without check=True.
check_ignored(code) == FALSE

\* subprocess.run(cmd, check=True) raises CalledProcessError on a non-zero
\* exit status
check_raises(code) == code # 0

\* main before its first block: no stage started yet
PipelineStart == [k |-> 1, started |-> <<>>, codes |-> <<>>]

InitPipeline ==
    /\ RunIdle
    /\ arg \in PipelineInputs
    /\ ret = PipelineStart
    /\ fpc = "if"

\* the block of a stage that is not selected is passed over
SkipStage ==
    /\ fpc = "if"
    /\ ret.k <= Len(Stages)
    /\ ~Selected(Stages[ret.k], arg)
    /\ ret' = [ret EXCEPT !.k = @ + 1]
    /\ fpc' = fpc
    /\ UNCHANGED <<runVars, arg>>

\* subprocess.run starts the command of a selected stage and waits for it
StartStage ==
    /\ fpc = "if"
    /\ ret.k <= Len(Stages)
    /\ Selected(Stages[ret.k], arg)
    /\ ret' = [ret EXCEPT !.started = Append(@, CmdOf(Stages[ret.k], arg))]
    /\ fpc' = "running"
    /\ UNCHANGED <<runVars, arg>>

\* the child exits: with check=True a non-zero status ends main with
\* CalledProcessError, otherwise main goes on to the next block
StageExits ==
    /\ fpc = "running"
    /\ \E code \in 0..MaxExitCode :
          /\ ret' = [ret EXCEPT !.codes = Append(@, code),
                                !.k = IF check_raises(code) THEN @ ELSE @ + 1]
          /\ fpc' = IF check_raises(code) THEN "failed" ELSE "if"
    /\ UNCHANGED <<runVars, arg>>

\* the last block is behind: main returns
PipelineEnds ==
    /\ fpc = "if"
    /\ ret.k > Len(Stages)
    /\ fpc' = "done"
    /\ UNCHANGED <<runVars, arg, ret>>

NextPipeline ==
    \/ SkipStage
    \/ StartStage
    \/ StageExits
    \/ PipelineEnds

SpecPipeline == InitPipeline /\ [][NextPipeline]_vars

\* the scripts in the order generate, format, predict, audit
ScriptsInOrder == [j \in 1..Len(Stages) |-> ScriptOf[Stages[j]]]

StartedScripts == [j \in 1..Len(ret.started) |-> ret.started[j].script]

\* C22: with --stage all the stages started so far are the first ones of
\* generate, format, predict, audit, in that order and each once, and all four
\* when main has returned; with a single stage nothing but that stage is
\* started, and it has been once main has returned; every stage but the last
\* started has exited with status 0, and a stage that exited with another
\* status is the last one started and has ended the run.
C22_StagesInOrder ==
    /\ arg.stage = "all" =>
          /\ Len(ret.started) <= Len(Stages)
          /\ StartedScripts = SubSeq(ScriptsInOrder, 1, Len(ret.started))
          /\ fpc = "done" => Len(ret.started) = Len(Stages)
    /\ arg.stage # "all" =>
          /\ Len(ret.started) <= 1
          /\ \A j \in 1..Len(ret.started) : ret.started[j].script = ScriptOf[arg.stage]
          /\ fpc = "done" => Len(ret.started) = 1
    /\ Len(ret.codes) = IF fpc = "running" THEN Len(ret.started) - 1
                        ELSE Len(ret.started)
    /\ \A j \in 1..Len(ret.codes) :
          \/ ret.codes[j] = 0
          \/ j = Len(ret.started) /\ fpc = "failed"
    /\ fpc = "failed" =>
          (ret.codes # <<>> /\ ret.codes[Len(ret.codes)] # 0)

\* with --stage all: generate and format succeeded, predict failed, audit was
\* never started
C22_Witness ==
    /\ arg.stage = "all"
    /\ fpc = "failed"
    /\ StartedScripts = SubSeq(ScriptsInOrder, 1, 3)
    /\ ret.codes[1] = 0 /\ ret.codes[2] = 0 /\ ret.codes[3] # 0

\* with --stage all: all four stages ran and main returned
C22_WitnessAll ==
    /\ arg.stage = "all"
    /\ fpc = "done"
    /\ StartedScripts = ScriptsInOrder

====
